---- MODULE Spec2Model ----
(***************************************************************************)
(* A model of bayespy/demos/demo_lssm_drift.py: the data simulation        *)
(* (simulate_drifting_lssm), the two model-fitting functions (run_dlssm,   *)
(* run_lssm) and the entry point run.                                      *)
(*                                                                         *)
(* Real numbers are abstracted to residues modulo ValMod.  NumPy's global  *)
(* generator is a counter-based generator: a key (set by np.random.seed,   *)
(* or by the interpreter at start-up) and the number of samples drawn.     *)
(* The calls into the inference library are recorded, in order, in trace.  *)
(***************************************************************************)
EXTENDS Integers, Sequences, FiniteSets

VARIABLES
    pc,       \* position in run: a label, or "body" inside run_dlssm/run_lssm
    script,   \* TRUE: the file is executed as __main__ (run() then plt.show())
    drift,    \* argument drift of run
    seed,     \* argument seed of run (NoSeed stands for None)
    maxiter,  \* argument maxiter of run
    rng,      \* state of np.random's global generator: [key, ctr]
    draws,    \* the seeding calls and sample requests of this execution, in order
    sim,      \* the frame of simulate_drifting_lssm (its locals)
    y,        \* local y of run: observations, rows x columns
    f,        \* local f of run: noiseless observations
    mask,     \* local mask of run
    fn,       \* the function run dispatched to ("" before the dispatch)
    ip,       \* index of the next statement in the body of fn
    ind,      \* loop variable ind of the iteration loop
    rotate,   \* local flag rotate of run_dlssm
    tlen,     \* the locals bound in the frame of fn, each with its number of time instances
    trace,    \* calls made so far in this execution, in order
    exc,      \* the exception that ended the execution ("" if none)
    runs,     \* number of the execution (1 or 2)
    prev      \* what the previous execution produced

vars == <<pc, script, drift, seed, maxiter, rng, draws, sim, y, f, mask,
          fn, ip, ind, rotate, tlen, trace, exc, runs, prev>>

(***************************************************************************)
(* Bounds of the model.                                                    *)
(***************************************************************************)
MaxIter == 2    \* maxiter ranges over 0..MaxIter
NumSeeds == 2   \* seed ranges over None and 0..NumSeeds-1
NumKeys == 2    \* start-up states of the generator
MaxDim == 4     \* M and N of simulate_drifting_lssm range over 1..MaxDim
ValMod == 7     \* real numbers are residues modulo ValMod

(***************************************************************************)
(* Program constants.                                                      *)
(***************************************************************************)
M_run == 10
N_run == 200
D_sim == 3
D_run == 4
WindowLo == 70
WindowHi == 120
DefaultSeed == 42
DefaultMaxiter == 50
DefaultDriftOff == FALSE
DefaultDrift == TRUE
NoSeed == -1    \* None
NaN == -1       \* np.nan
Empty == -2     \* a cell of np.empty never written

(***************************************************************************)
(* np.random: the i-th sample after ctr samples were drawn from key.       *)
(***************************************************************************)
Sample(key, i) == ((key + 1) * (i + 1) + (i \div 3) + key * key) % ValMod

\* np.random.randn(...)/rand(...): element i of a request made in state g
Draw(g, i) == Sample(g.key, g.ctr + i)

\* the generator after a request of size samples
Advance(g, size) == [g EXCEPT !.ctr = @ + size]

\* the generator when the interpreter starts: some key, nothing drawn
StartUp(k) == [key |-> k, ctr |-> 0]

\* np.random.seed(s): the key is s and the stream starts over
SeededNoRewind(s) == [key |-> s, ctr |-> rng.ctr]

Seeded(s) == [key |-> s, ctr |-> 0]

(***************************************************************************)
(* Indexing a NumPy axis of length len with i.                             *)
(***************************************************************************)
InBounds(i, len) == -len <= i /\ i < len

Norm(i, len) == IF i < 0 THEN len + i ELSE i

\* np.linspace(5, 1, num)[i], times (num - 1) (times 1 when num = 1)
Linspace(i, num) == IF num = 1 THEN 5 ELSE 5 * (num - 1) - 4 * i

(***************************************************************************)
(* simulate_drifting_lssm(M, N), one step at a time on its frame s.        *)
(***************************************************************************)
\* an array holds values: the cells of v are computed when the array is made
Array(v) == IF v = v THEN v ELSE v

Rows(M) == 0 .. M - 1
Cols(N) == 0 .. N - 1
Dims == 0 .. D_sim - 1

IdleFrame == [pc |-> "idle", M |-> 0, N |-> 0, it |-> 0, n |-> 0, g |-> StartUp(0),
              c |-> <<>>, a |-> <<>>, x |-> <<>>, f |-> <<>>, y |-> <<>>,
              aw |-> <<>>, xw |-> <<>>, fw |-> <<>>, yw |-> <<>>, req |-> <<>>,
              uninit |-> FALSE, err |-> ""]

\* the call: parameters bound, nothing executed yet
SimEntry(M, N, g) == [IdleFrame EXCEPT !.pc = "begin", !.M = M, !.N = N, !.g = g]

\* lines 50-53: D = 3; c = randn(M,D); a = np.empty((N-1,D,D)); n = 0
SimBegin(s) ==
    [s EXCEPT !.pc = "loop1",
              !.c = Array([md \in Rows(s.M) \X Dims |-> Draw(s.g, md[1] * D_sim + md[2])]),
              !.g = Advance(s.g, s.M * D_sim),
              !.req = Append(@, s.M * D_sim),
              !.a = Array([i \in 0 .. s.N - 2 |-> Empty]),
              !.aw = Array([i \in 0 .. s.N - 2 |-> 0]),
              !.it = 0,
              !.n = 0]

\* lines 54-59: one pass of "for l in np.linspace(5, 1, num=N-1)", or its exit
Loop1(s) ==
    IF s.it >= s.N - 1
    THEN [s EXCEPT !.pc = "alloc"]
    ELSE IF ~InBounds(s.n, s.N - 1)
         THEN [s EXCEPT !.pc = "raised", !.err = "IndexError"]
         ELSE LET i == Norm(s.n, s.N - 1)
              IN [s EXCEPT !.a[i] = Linspace(s.it, s.N - 1),
                           !.aw[i] = @ + 1,
                           !.it = @ + 1,
                           !.n = @ + 1]

\* x . c[m] for one row m
Dot(c, m, xn) == (c[<<m, 0>>] * xn[0] + c[<<m, 1>>] * xn[1] + c[<<m, 2>>] * xn[2]) % ValMod

\* np.dot(a[n], x[n]): the rotation by w = 1/l, its cosine and sine abstracted
Rot(l, xn) ==
    LET cw == l % ValMod
        sw == (l + 1) % ValMod
    IN [d \in Dims |-> CASE d = 0 -> (cw * xn[0] - sw * xn[1]) % ValMod
                         [] d = 1 -> (sw * xn[0] + cw * xn[1]) % ValMod
                         [] OTHER -> xn[2]]

\* column n of f and y from x[n]: f[:,n] = dot(c,x[n]); y[:,n] = f[:,n] + 3*randn(M)
\* (f[n][m] and y[n][m] are the cells f[m,n] and y[m,n] of the source)
Observe(s, n) ==
    [s EXCEPT !.f[n] = Array([m \in Rows(s.M) |-> Dot(s.c, m, s.x[n])]),
              !.y[n] = Array([m \in Rows(s.M) |->
                                 (Dot(s.c, m, s.x[n]) + 3 * Draw(s.g, m)) % ValMod]),
              !.fw[n] = @ + 1,
              !.yw[n] = @ + 1,
              !.req = Append(@, s.M),
              !.g = Advance(s.g, s.M)]

\* lines 60-65: x, f, y = np.empty(...); x[0] = 10*randn(D); f[:,0], y[:,0]
Alloc(s) ==
    LET s1 == [s EXCEPT !.x = Array([i \in Cols(s.N) |->
                                   IF i = 0 THEN [d \in Dims |-> (10 * Draw(s.g, d)) % ValMod]
                                   ELSE [d \in Dims |-> Empty]]),
                        !.xw = Array([i \in Cols(s.N) |-> IF i = 0 THEN 1 ELSE 0]),
                        !.f = Array([i \in Cols(s.N) |-> [m \in Rows(s.M) |-> Empty]]),
                        !.y = Array([i \in Cols(s.N) |-> [m \in Rows(s.M) |-> Empty]]),
                        !.fw = Array([i \in Cols(s.N) |-> 0]),
                        !.yw = Array([i \in Cols(s.N) |-> 0]),
                        !.g = Advance(s.g, D_sim),
                        !.req = Append(@, D_sim),
                        !.it = 0]
    IN [Observe(s1, 0) EXCEPT !.pc = "loop2"]

\* range(N): one value more
RangeLenOneMore(N) == IF N > 0 THEN N ELSE 0

\* range(N-1): the number of values it yields
RangeLen(N) == IF N - 1 > 0 THEN N - 1 ELSE 0

\* lines 66-69: one pass of "for n in range(N-1)", or its exit
Loop2(s) ==
    IF s.it >= RangeLen(s.N)
    THEN [s EXCEPT !.pc = "return"]
    ELSE LET n == s.it
         IN IF ~InBounds(n, s.N - 1) \/ ~InBounds(n + 1, s.N)
            THEN [s EXCEPT !.pc = "raised", !.err = "IndexError", !.n = n]
            ELSE LET rot == Rot(s.a[n], s.x[n])
                     s1 == [s EXCEPT !.x[n + 1] = Array([d \in Dims |->
                                            (rot[d] + Draw(s.g, d)) % ValMod]),
                                     !.xw[n + 1] = @ + 1,
                                     !.uninit = @ \/ s.aw[n] = 0 \/ s.xw[n] = 0,
                                     !.g = Advance(s.g, D_sim),
                                     !.req = Append(@, D_sim),
                                     !.n = n,
                                     !.it = @ + 1]
                 IN Observe(s1, n + 1)

SimStep(s) ==
    CASE s.pc = "begin" -> SimBegin(s)
      [] s.pc = "loop1" -> Loop1(s)
      [] s.pc = "alloc" -> Alloc(s)
      [] s.pc = "loop2" -> Loop2(s)
      [] OTHER -> s

\* k steps from frame s (a frame that returned or raised stays as it is)
RECURSIVE Steps(_, _)
Steps(s, k) ==
    IF k = 0 THEN s
    ELSE IF k = 1 THEN SimStep(s)
    ELSE LET h == Steps(s, k \div 2)
         IN IF h.pc \in {"return", "raised"} THEN h ELSE Steps(h, k - (k \div 2))

\* the steps of one call: the first and the second block, and a pass and an exit
\* test per value of each of the two loops
CallSteps(N) == 2 * N + 2

RunSim(s) == Steps(s, CallSteps(s.N))

\* simulate_drifting_lssm(M, N) called in generator state g: the frame at its return
simulate_drifting_lssm(M, N, g) == RunSim(SimEntry(M, N, g))

(***************************************************************************)
(* bayespy.utils.random.mask(M, N, p): a uniform sample per cell, compared *)
(* with p = pnum/pden.                                                     *)
(***************************************************************************)
RandomMask(M, N, pnum, pden, g) ==
    [n \in Cols(N) |-> [m \in Rows(M) |-> pden * Draw(g, m * N + n) < pnum * ValMod]]

\* line 352: mask[:,70:120] = False
MaskWindow(m) ==
    [n \in DOMAIN m |-> IF WindowLo <= n /\ n < WindowHi
                         THEN [r \in DOMAIN m[n] |-> FALSE]
                         ELSE m[n]]

\* line 354 with the mask not negated: y[mask] = np.nan
NanFillInverted(yy, m) ==
    [n \in DOMAIN yy |-> [r \in DOMAIN yy[n] |-> IF m[n][r] THEN NaN ELSE yy[n][r]]]

\* line 354: y[~mask] = np.nan
NanFill(yy, m) ==
    [n \in DOMAIN yy |-> [r \in DOMAIN yy[n] |-> IF ~m[n][r] THEN NaN ELSE yy[n][r]]]

(***************************************************************************)
(* The names bound at module level by the imports, lines 28-43.            *)
(***************************************************************************)
Imports == {"np", "scipy", "plt", "GaussianMarkovChain", "GaussianArrayARD", "Gamma",
            "SumMultiply", "utils", "random", "VB", "transformations", "bpplt"}

(***************************************************************************)
(* The statements of run_dlssm and run_lssm.  A statement is a record:     *)
(*   kind   "call", "print", "assign", "if", "for" or "endfor"             *)
(*   line   its line in the source                                         *)
(*   uses   the module-level names it looks up                             *)
(*   recv   the local whose method is called ("" if none)                  *)
(*   op     the function, constructor or method called                     *)
(*   args   the arrays and nodes passed to the call, directly or through   *)
(*          a call of pre, in order                                        *)
(*   drop   per argument, the time instances sliced off its front          *)
(*   reads  the other locals the statement reads (sizes)                   *)
(*   pre    the calls made while the arguments are evaluated, in order,    *)
(*          each one before the statement's own call                       *)
(*   binds  the locals bound to the result                                 *)
(*   n      the n= argument of a Markov chain (0 if none)                  *)
(*   rand   the size of the np.random.randn request in pre (what the       *)
(*          library draws inside a call is not recorded)                   *)
(*   skip   "if"/"for": statements jumped over when the test fails;        *)
(*          "endfor": statements back to the loop head                     *)
(***************************************************************************)
Stmt(kind, line, uses, recv, op, args, binds) ==
    [kind |-> kind, line |-> line, uses |-> uses, recv |-> recv, op |-> op,
     args |-> args, drop |-> [i \in DOMAIN args |-> 0], reads |-> {}, pre |-> <<>>,
     binds |-> IF binds = "" THEN <<>> ELSE <<binds>>,
     n |-> 0, rand |-> 0, skip |-> 0]

New(line, class, args, binds) == Stmt("call", line, {class}, "", class, args, binds)
Meth(line, uses, recv, op, args) == Stmt("call", line, uses, recv, op, args, "")
Fun(line, mod, op, args, binds) == Stmt("call", line, {mod}, "", op, args, binds)
Say(line, text) == Stmt("print", line, {}, "", text, <<>>, "")
If(line, cond, skip) == [Stmt("if", line, {}, "", cond, <<>>, "") EXCEPT !.skip = skip]
For(line, skip) == [Stmt("for", line, {}, "", "range", <<"maxiter">>, "ind") EXCEPT !.skip = skip]
EndFor(line, back) == [Stmt("endfor", line, {}, "", "", <<>>, "") EXCEPT !.skip = back]

\* a call, as it is recorded
Event(op, recv, args, line) == [op |-> op, recv |-> recv, args |-> args, line |-> line]

\* a call in an argument of a statement: np.<op>(...) at line, reading the locals args
Np(line, op, args) == Event(op, "", args, line)

\* <recv>.as_gaussian() at line, in an argument
AsGaussian(line, recv) == Event("as_gaussian", recv, <<>>, line)

\* the subscript [...] at line on the result of the call before it
GetItem(line) == Event("__getitem__", "", <<>>, line)

\* the statement st, reading the sizes reads, its arguments making the calls pre
With(st, reads, pre) == [st EXCEPT !.reads = reads, !.pre = pre]

\* line 100: n=N
S_n(N) == N

\* line 135 with as many instances as S: n=N
X_nSameAsS(N) == N

\* line 135: n=N+1
X_n(N) == N + 1

\* line 164: X.as_gaussian()[1:]
F_drop == <<0, 1, 0>>

\* line 185 with the rotations switched on: rotate = True
RotateFlagOn == TRUE

\* line 185: rotate = False
RotateFlag == FALSE

\* line 200 with one pass too many: range(maxiter + 1)
RangeStopOneMore(k) == k + 1

\* line 200 / line 323: range(maxiter)
RangeStop(k) == k

\* lines 77-170: the model of run_dlssm
dlssm_model(N, D) == <<
    [Fun(77, "np", "np.shape", <<"y">>, "") EXCEPT !.binds = <<"M", "N">>],
    With(New(81, "Gamma", <<>>, "alpha"), {"K"}, <<>>),
    With([New(86, "GaussianArrayARD", <<"alpha">>, "A") EXCEPT !.uses = {"GaussianArrayARD", "np"}],
         {"K"}, << Np(86, "np.identity", <<"K">>) >>),
    With(Meth(92, {"np"}, "A", "initialize_from_value", <<>>),
         {}, << Np(92, "np.identity", <<"K">>) >>),
    With([New(96, "GaussianMarkovChain", <<"A">>, "S")
              EXCEPT !.n = S_n(N), !.uses = {"GaussianMarkovChain", "np"}],
         {"N"}, << Np(96, "np.ones", <<"K">>), Np(97, "np.identity", <<"K">>),
                   Np(99, "np.ones", <<"K">>) >>),
    With(Meth(103, {"np"}, "S", "initialize_from_value", <<>>),
         {}, << Np(103, "np.ones", <<"N", "K">>) >>),
    With(New(108, "Gamma", <<>>, "beta"), {"D", "K"}, <<>>),
    With(Fun(113, "np", "np.zeros", <<>>, "b"), {"D", "K"}, <<>>),
    With(Meth(114, {"np"}, "b", "__setitem__", <<>>),
         {}, << Np(114, "np.arange", <<"D">>), Np(114, "np.arange", <<"D">>),
                Np(114, "np.zeros", <<"D">>) >>),
    With(New(115, "GaussianArrayARD", <<"beta">>, "B"), {"D"}, <<>>),
    With(Meth(120, {"np"}, "B", "initialize_from_value", <<"b">>),
         {}, << Np(120, "np.reshape", <<"b", "D", "D", "K">>) >>),
    With([New(123, "SumMultiply", <<"B", "S">>, "BS") EXCEPT !.uses = {"SumMultiply", "np"}],
         {}, << AsGaussian(125, "S"), GetItem(125) >>),
    With([New(131, "GaussianMarkovChain", <<"BS">>, "X")
              EXCEPT !.n = X_n(N), !.uses = {"GaussianMarkovChain", "np"}],
         {"N"}, << Np(131, "np.zeros", <<"D">>), Np(132, "np.identity", <<"D">>),
                   Np(134, "np.ones", <<"D">>) >>),
    With([Meth(138, {"np"}, "X", "initialize_from_value", <<>>) EXCEPT !.rand = (N + 1) * D],
         {}, << Np(138, "np.random.randn", <<"N", "D">>) >>),
    With(New(142, "Gamma", <<>>, "gamma"), {"D", "K"}, <<>>),
    With(New(147, "GaussianArrayARD", <<"gamma">>, "C"), {"M"}, <<>>),
    Meth(152, {}, "C", "initialize_from_random", <<>>),
    New(156, "Gamma", <<>>, "tau"),
    With([New(162, "SumMultiply", <<"C", "X", "S">>, "F") EXCEPT !.drop = F_drop],
         {}, << AsGaussian(164, "X"), GetItem(164), AsGaussian(165, "S") >>),
    New(168, "GaussianArrayARD", <<"F", "tau">>, "Y") >>

\* lines 177-179: observe the data, construct the inference machine
dlssm_observe == <<
    Meth(177, {}, "Y", "observe", <<"y", "mask">>),
    New(179, "VB", <<"Y", "X", "S", "A", "alpha", "B", "beta", "C", "gamma", "tau">>, "Q") >>

\* lines 185-197: the rotations, behind the flag
dlssm_rotations == <<
    Stmt("assign", 185, {}, "", "rotate", <<>>, "rotate"),
    If(186, "rotate", 8),
    Fun(188, "transformations", "RotateGaussianMatrixARD", <<"B", "beta", "D", "K">>, "rotB"),
    Fun(189, "transformations", "RotateDriftingMarkovChain", <<"X", "B", "S", "rotB">>, "rotX"),
    Fun(190, "transformations", "RotateGaussianARD", <<"C", "gamma">>, "rotC"),
    Fun(191, "transformations", "RotationOptimizer", <<"rotX", "rotC", "D">>, "R_X"),
    Fun(194, "transformations", "RotateGaussianARD", <<"A", "alpha">>, "rotA"),
    Fun(195, "transformations", "RotateGaussianMarkovChain", <<"S", "A", "rotA">>, "rotS"),
    Fun(196, "transformations", "RotateGaussianMatrixARD", <<"B", "beta", "D", "K">>, "rotB"),
    Fun(197, "transformations", "RotationOptimizer", <<"rotS", "rotB", "K">>, "R_S") >>

\* lines 201-218: the nodes updated in one pass, in order
UpdateOrder == <<"X", "S", "A", "alpha", "B", "beta", "C", "gamma", "tau">>

\* lines 201-218: print("<node> update"); Q.update(<node>), for each node
RECURSIVE Updates(_, _)
Updates(nodes, line) ==
    IF nodes = <<>> THEN <<>>
    ELSE << Say(line, Head(nodes)), Meth(line + 1, {}, "Q", "update", <<Head(nodes)>>) >>
         \o Updates(Tail(nodes), line + 2)

\* lines 200-223: the iteration loop
dlssm_loop ==
    LET body == Updates(UpdateOrder, 201) \o <<
                    If(219, "rotate", 4),
                    If(220, "ind >= 0", 1),
                    Meth(221, {}, "R_X", "rotate", <<>>),
                    If(222, "ind >= 0", 1),
                    Meth(223, {}, "R_S", "rotate", <<>>) >>
    IN << For(200, Len(body) + 1) >> \o body \o << EndFor(223, Len(body) + 1) >>

\* lines 225-243: the plots
dlssm_plots == <<
    Meth(225, {}, "Q", "plot_iteration_by_nodes", <<>>),
    Fun(232, "plt", "plt.figure", <<>>, ""),
    Fun(233, "bpplt", "bpplt.timeseries_normal", <<"F">>, ""),
    Fun(234, "bpplt", "bpplt.timeseries", <<"f">>, ""),
    Fun(235, "bpplt", "bpplt.timeseries", <<"y">>, ""),
    Fun(238, "plt", "plt.figure", <<>>, ""),
    Fun(239, "bpplt", "bpplt.timeseries_gaussian_mc", <<"X">>, ""),
    Fun(242, "plt", "plt.figure", <<>>, ""),
    Fun(243, "bpplt", "bpplt.timeseries_gaussian_mc", <<"S">>, "") >>

\* lines 72-243 with the plots moved in front of the iteration loop
run_dlssm_PlotsFirst(N, D) ==
    dlssm_model(N, D) \o dlssm_observe \o dlssm_rotations \o dlssm_plots \o dlssm_loop

\* lines 72-243
run_dlssm(N, D) ==
    dlssm_model(N, D) \o dlssm_observe \o dlssm_rotations \o dlssm_loop \o dlssm_plots

\* lines 246-334
run_lssm(N, D) == <<
    [Fun(251, "np", "np.shape", <<"y">>, "") EXCEPT !.binds = <<"M", "N">>],
    With(New(259, "Gamma", <<>>, "alpha"), {"D"}, <<>>),
    With([New(264, "Gaussian", <<"alpha">>, "A") EXCEPT !.uses = {"Gaussian", "np", "diagonal"}],
         {"D"}, << Np(264, "np.zeros", <<"D">>), Event("diagonal", "", <<"alpha">>, 265) >>),
    With(Meth(268, {"np"}, "A", "initialize_from_value", <<>>),
         {}, << Np(268, "np.identity", <<"D">>) >>),
    With([New(272, "GaussianMarkovChain", <<"A">>, "X")
              EXCEPT !.n = N, !.uses = {"GaussianMarkovChain", "np"}],
         {"N"}, << Np(272, "np.zeros", <<"D">>), Np(273, "np.identity", <<"D">>),
                   Np(275, "np.ones", <<"D">>) >>),
    With([Meth(279, {"np"}, "X", "initialize_from_value", <<>>) EXCEPT !.rand = N * D],
         {}, << Np(279, "np.random.randn", <<"N", "D">>) >>),
    With(New(283, "Gamma", <<>>, "gamma"), {"D"}, <<>>),
    With([New(288, "Gaussian", <<"gamma">>, "C") EXCEPT !.uses = {"Gaussian", "np", "diagonal"}],
         {"M"}, << Np(288, "np.zeros", <<"D">>), Event("diagonal", "", <<"gamma">>, 289) >>),
    With([Meth(292, {"np"}, "C", "initialize_from_value", <<>>) EXCEPT !.rand = M_run * D],
         {}, << Np(292, "np.random.randn", <<"M", "D">>) >>),
    New(296, "Gamma", <<>>, "tau"),
    With(New(302, "Dot", <<"C", "X">>, "CX"), {}, << AsGaussian(302, "X") >>),
    New(303, "Normal", <<"CX", "tau">>, "Y"),
    Fun(308, "transformations", "RotateGaussianARD", <<"A", "alpha">>, "rotA"),
    Fun(309, "transformations", "RotateGaussianMarkovChain", <<"X", "A", "rotA">>, "rotX"),
    Fun(310, "transformations", "RotateGaussianARD", <<"C", "gamma">>, "rotC"),
    Fun(311, "transformations", "RotationOptimizer", <<"rotX", "rotC", "D">>, "R"),
    Meth(318, {}, "Y", "observe", <<"y", "mask">>),
    New(320, "VB", <<"Y", "X", "A", "alpha", "C", "gamma", "tau">>, "Q"),
    For(323, 3),
    Meth(324, {}, "Q", "update", <<"X", "A", "alpha", "C", "gamma", "tau">>),
    Meth(325, {}, "R", "rotate", <<>>),
    EndFor(325, 3),
    Fun(331, "plt", "plt.figure", <<>>, ""),
    Fun(332, "bpplt", "bpplt.timeseries_normal", <<"CX">>, ""),
    Fun(333, "bpplt", "bpplt.timeseries", <<"f">>, ""),
    Fun(334, "bpplt", "bpplt.timeseries", <<"y">>, "") >>

\* the body of the function run dispatched to
Body == IF fn = "run_dlssm" THEN run_dlssm(N_run, D_run)
        ELSE IF fn = "run_lssm" THEN run_lssm(N_run, D_run)
        ELSE <<>>

\* the statement about to be executed
Cur == Body[ip]

(***************************************************************************)
(* The inference library's rules for the time axis of a node: a chain      *)
(* built with n=k has k instances and takes k-1 transitions from its       *)
(* dynamics; a node combining parents has the parents' common length       *)
(* (a parent without a time axis, length 0, broadcasts).                   *)
(***************************************************************************)
NodeOps == {"SumMultiply", "GaussianArrayARD", "Gaussian", "Dot", "Normal"}

\* the time lengths of the arguments of st, each after its slice
ArgLens(st, t) ==
    {IF t[st.args[i]] > 0 THEN t[st.args[i]] - st.drop[i] ELSE 0 : i \in DOMAIN st.args}

\* the common time length of lens: 0 if none has a time axis, -1 if they disagree
Broadcast(lens) ==
    LET timed == lens \ {0}
    IN IF timed = {} THEN 0
       ELSE IF Cardinality(timed) = 1 THEN CHOOSE l \in timed : TRUE
       ELSE -1

\* the number of transitions a chain of n time instances takes
Transitions(n) == n - 1

ShapeOK(st, t) ==
    CASE st.op \in NodeOps -> Broadcast(ArgLens(st, t)) # -1
      [] st.op = "GaussianMarkovChain" ->
             Broadcast(ArgLens(st, t)) \in {0, Transitions(st.n)}
      [] st.op = "observe" -> t[st.recv] = t[st.args[1]]
      [] OTHER -> TRUE

ResultLen(st, t) ==
    CASE st.op \in NodeOps -> Broadcast(ArgLens(st, t))
      [] st.op = "GaussianMarkovChain" -> st.n
      [] OTHER -> 0

\* the locals a statement reads: its receiver, its arguments, its sizes, and
\* what the calls in its arguments read
Locals(st) ==
    (IF st.recv = "" THEN {} ELSE {st.recv})
    \cup {st.args[i] : i \in DOMAIN st.args}
    \cup st.reads
    \cup UNION {{st.pre[j].args[i] : i \in DOMAIN st.pre[j].args} : j \in DOMAIN st.pre}
    \cup ({st.pre[j].recv : j \in DOMAIN st.pre} \ {""})

\* every name the statement reads is bound (the names the module does not
\* import are names of callees, looked up before any argument is evaluated)
Resolves(st, t) ==
    /\ st.uses \subseteq Imports
    /\ Locals(st) \subseteq DOMAIN t

\* the locals names are bound to a value of time length len
Bind(t, names, len) ==
    LET new == {names[i] : i \in DOMAIN names}
    IN [x \in DOMAIN t \cup new |-> IF x \in new THEN len ELSE t[x]]

\* the statement's own call, as it is recorded
CallEvent(st) == Event(st.op, st.recv, st.args, st.line)

\* the calls a statement makes, in order: those in its arguments, then its own
Calls(st) == st.pre \o << CallEvent(st) >>

NoLocals == [x \in {} |-> 0]

\* the frame of run_dlssm(y, f, mask, D, K, maxiter) / run_lssm(y, f, mask, D, maxiter)
\* at the call: its parameters
Params(g) ==
    LET names == IF g = "run_dlssm" THEN {"y", "f", "mask", "D", "K", "maxiter"}
                 ELSE {"y", "f", "mask", "D", "maxiter"}
    IN [x \in names |-> IF x \in {"y", "f", "mask"} THEN N_run ELSE 0]

NoPrev == [y |-> <<>>, f |-> <<>>, mask |-> <<>>, trace |-> <<>>, draws |-> <<>>, exc |-> ""]

callV == <<script, drift, seed, maxiter, runs, prev>>
dataV == <<sim, y, f, mask>>
bodyV == <<fn, ip, ind, rotate, tlen>>

(***************************************************************************)
(* The start: the file run as a script (run() with its defaults), or run   *)
(* called with arguments, in an interpreter whose generator is in one of   *)
(* its start-up states.                                                    *)
(***************************************************************************)
Init ==
    /\ script \in BOOLEAN
    /\ drift \in (IF script THEN {DefaultDrift} ELSE BOOLEAN)
    /\ seed \in (IF script THEN {DefaultSeed} ELSE {NoSeed} \cup (0 .. NumSeeds - 1))
    /\ maxiter \in (IF script THEN {DefaultMaxiter} ELSE 0 .. MaxIter)
    /\ rng \in {StartUp(k) : k \in 0 .. NumKeys - 1}
    /\ pc = "seed"
    /\ draws = <<>>
    /\ sim = IdleFrame
    /\ y = <<>> /\ f = <<>> /\ mask = <<>>
    /\ fn = "" /\ ip = 0 /\ ind = -1 /\ rotate = FALSE /\ tlen = NoLocals
    /\ trace = <<>>
    /\ exc = ""
    /\ runs = 1
    /\ prev = NoPrev

\* lines 340-341: if seed is not None: np.random.seed(seed)
Seed ==
    /\ pc = "seed"
    /\ IF seed # NoSeed
       THEN /\ rng' = Seeded(seed)
            /\ draws' = Append(draws, [op |-> "seed", size |-> seed])
       ELSE UNCHANGED <<rng, draws>>
    /\ pc' = "simulate"
    /\ UNCHANGED <<callV, dataV, bodyV, trace, exc>>

\* the requests of a frame, as entries of draws
Requests(s) == [i \in DOMAIN s.req |-> [op |-> "randn", size |-> s.req[i]]]

\* lines 344-346: M = 10; N = 200; (y, f) = simulate_drifting_lssm(M, N)
Simulate ==
    /\ pc = "simulate"
    /\ sim' = simulate_drifting_lssm(M_run, N_run, rng)
    /\ rng' = sim'.g
    /\ draws' = draws \o Requests(sim')
    /\ trace' = Append(trace, Event("simulate_drifting_lssm", "", <<>>, 346))
    /\ IF sim'.pc = "raised"
       THEN pc' = "raised" /\ exc' = sim'.err /\ UNCHANGED <<y, f>>
       ELSE pc' = "mask" /\ y' = sim'.y /\ f' = sim'.f /\ UNCHANGED exc
    /\ UNCHANGED <<callV, mask, bodyV>>

\* line 349: mask = random.mask(M, N, p=0.8)
Mask ==
    /\ pc = "mask"
    /\ mask' = RandomMask(M_run, N_run, 8, 10, rng)
    /\ rng' = Advance(rng, M_run * N_run)
    /\ draws' = Append(draws, [op |-> "rand", size |-> M_run * N_run])
    /\ trace' = Append(trace, Event("random.mask", "", <<>>, 349))
    /\ pc' = "window"
    /\ UNCHANGED <<callV, sim, y, f, bodyV, exc>>

\* line 352: mask[:,70:120] = False
Window ==
    /\ pc = "window"
    /\ mask' = MaskWindow(mask)
    /\ pc' = "fill"
    /\ UNCHANGED <<callV, rng, draws, sim, y, f, bodyV, trace, exc>>

\* line 354: y[~mask] = np.nan
Fill ==
    /\ pc = "fill"
    /\ y' = NanFill(y, mask)
    /\ pc' = "dispatch"
    /\ UNCHANGED <<callV, rng, draws, sim, f, mask, bodyV, trace, exc>>

\* lines 357-360: if drift: run_dlssm(...) else: run_lssm(...)
Dispatch ==
    /\ pc = "dispatch"
    /\ fn' = IF drift THEN "run_dlssm" ELSE "run_lssm"
    /\ ip' = 1
    /\ ind' = -1
    /\ tlen' = Params(fn')
    /\ trace' = Append(trace, Event(fn', "", <<"y", "f", "mask">>, IF drift THEN 358 ELSE 360))
    /\ pc' = "body"
    /\ UNCHANGED <<callV, rng, draws, dataV, rotate, exc>>

InBody == pc = "body" /\ ip \in DOMAIN Body

\* a call statement: its names are looked up, the calls in its arguments are
\* made (the request to np.random among them), then its own call; the library
\* refuses a shape mismatch
ExecCall ==
    /\ InBody
    /\ Cur.kind = "call"
    /\ IF ~Resolves(Cur, tlen)
       THEN /\ exc' = "NameError"
            /\ pc' = "raised"
            /\ UNCHANGED <<rng, draws, trace, ip, tlen>>
       ELSE /\ rng' = Advance(rng, Cur.rand)
            /\ draws' = IF Cur.rand > 0
                        THEN Append(draws, [op |-> "randn", size |-> Cur.rand])
                        ELSE draws
            /\ trace' = trace \o Calls(Cur)
            /\ IF ~ShapeOK(Cur, tlen)
               THEN exc' = "ValueError" /\ pc' = "raised" /\ UNCHANGED <<ip, tlen>>
               ELSE /\ tlen' = Bind(tlen, Cur.binds, ResultLen(Cur, tlen))
                    /\ ip' = ip + 1
                    /\ UNCHANGED <<exc, pc>>
    /\ UNCHANGED <<callV, dataV, fn, ind, rotate>>

\* print(...)
ExecPrint ==
    /\ InBody
    /\ Cur.kind = "print"
    /\ trace' = Append(trace, Event("print", "", <<Cur.op>>, Cur.line))
    /\ ip' = ip + 1
    /\ UNCHANGED <<callV, pc, rng, draws, dataV, fn, ind, rotate, tlen, exc>>

\* line 185: rotate = False
ExecAssign ==
    /\ InBody
    /\ Cur.kind = "assign"
    /\ rotate' = RotateFlag
    /\ tlen' = Bind(tlen, Cur.binds, 0)
    /\ ip' = ip + 1
    /\ UNCHANGED <<callV, pc, rng, draws, dataV, fn, ind, trace, exc>>

\* the value of the test of an if statement
Test(cond) == IF cond = "rotate" THEN rotate ELSE ind >= 0

\* if <test>: the block is entered, or jumped over
ExecIf ==
    /\ InBody
    /\ Cur.kind = "if"
    /\ ip' = IF Test(Cur.op) THEN ip + 1 ELSE ip + Cur.skip + 1
    /\ UNCHANGED <<callV, pc, rng, draws, dataV, fn, ind, rotate, tlen, trace, exc>>

\* for ind in range(maxiter): the next value, or the loop is left
ExecFor ==
    /\ InBody
    /\ Cur.kind = "for"
    /\ IF ind + 1 < RangeStop(maxiter)
       THEN /\ ind' = ind + 1
            /\ tlen' = Bind(tlen, Cur.binds, 0)
            /\ ip' = ip + 1
       ELSE /\ ip' = ip + Cur.skip + 1
            /\ UNCHANGED <<ind, tlen>>
    /\ UNCHANGED <<callV, pc, rng, draws, dataV, fn, rotate, trace, exc>>

\* the end of the loop body: back to the loop head
ExecEndFor ==
    /\ InBody
    /\ Cur.kind = "endfor"
    /\ ip' = ip - Cur.skip
    /\ UNCHANGED <<callV, pc, rng, draws, dataV, fn, ind, rotate, tlen, trace, exc>>

\* the body is done: run_dlssm / run_lssm returns, and so does run
Return ==
    /\ pc = "body"
    /\ ip = Len(Body) + 1
    /\ pc' = "returned"
    /\ UNCHANGED <<callV, rng, draws, dataV, bodyV, trace, exc>>

\* line 364: plt.show(), after run() returned
Show ==
    /\ pc = "returned"
    /\ script
    /\ trace' = Append(trace, Event("plt.show", "", <<>>, 364))
    /\ pc' = "exit"
    /\ UNCHANGED <<callV, rng, draws, dataV, bodyV, exc>>

Ended == pc = "raised" \/ pc = "exit" \/ (pc = "returned" /\ ~script)

\* a second execution with the same arguments: in the same interpreter (the
\* generator is where the first left it) or in a new one
Rerun ==
    /\ Ended
    /\ runs = 1
    /\ runs' = 2
    /\ prev' = [y |-> y, f |-> f, mask |-> mask, trace |-> trace, draws |-> draws, exc |-> exc]
    /\ rng' \in {rng} \cup {StartUp(k) : k \in 0 .. NumKeys - 1}
    /\ pc' = "seed"
    /\ draws' = <<>>
    /\ sim' = IdleFrame
    /\ y' = <<>> /\ f' = <<>> /\ mask' = <<>>
    /\ fn' = "" /\ ip' = 0 /\ ind' = -1 /\ rotate' = FALSE /\ tlen' = NoLocals
    /\ trace' = <<>>
    /\ exc' = ""
    /\ UNCHANGED <<script, drift, seed, maxiter>>

Step ==
    \/ Seed
    \/ Simulate
    \/ Mask
    \/ Window
    \/ Fill
    \/ Dispatch
    \/ ExecCall
    \/ ExecPrint
    \/ ExecAssign
    \/ ExecIf
    \/ ExecFor
    \/ ExecEndFor
    \/ Return
    \/ Show

Next == Step \/ Rerun

Spec == Init /\ [][Next]_vars

(***************************************************************************)
(* The same program with libraries that may fail: a call of a statement    *)
(* of run_dlssm / run_lssm, one in its arguments or its own, or            *)
(* random.mask, raises instead of returning.                               *)
(***************************************************************************)
ExternalRaise ==
    /\ \/ /\ pc = "mask"
          /\ trace' = Append(trace, Event("random.mask", "", <<>>, 349))
          \* random.mask fails before or after it drew its samples
          /\ \/ UNCHANGED <<rng, draws>>
             \/ /\ rng' = Advance(rng, M_run * N_run)
                /\ draws' = Append(draws, [op |-> "rand", size |-> M_run * N_run])
       \/ /\ InBody /\ Cur.kind = "call" /\ Resolves(Cur, tlen)
          \* the calls of the statement before the k-th returned, the k-th fails:
          \* a call in an argument, and then the statement's own call is never
          \* made, or the statement's own call, all arguments evaluated
          /\ \E k \in DOMAIN Calls(Cur) :
                 LET drawn == \E j \in 1 .. k - 1 : Calls(Cur)[j].op = "np.random.randn"
                     drawing == Calls(Cur)[k].op = "np.random.randn"
                 IN /\ trace' = trace \o SubSeq(Calls(Cur), 1, k)
                    \* np.random.randn returned, or fails before or after it drew
                    /\ \E d \in (IF drawn THEN {TRUE} ELSE IF drawing THEN BOOLEAN ELSE {FALSE}) :
                           IF d
                           THEN /\ rng' = Advance(rng, Cur.rand)
                                /\ draws' = Append(draws, [op |-> "randn", size |-> Cur.rand])
                           ELSE UNCHANGED <<rng, draws>>
    /\ exc' = "LibraryError"
    /\ pc' = "raised"
    /\ UNCHANGED <<callV, dataV, bodyV>>

NextExc == Step \/ ExternalRaise

SpecExc == Init /\ [][NextExc]_vars

(***************************************************************************)
(* simulate_drifting_lssm on its own, statement by statement, for every    *)
(* M and N in 1..MaxDim.                                                   *)
(***************************************************************************)
SimInit ==
    /\ sim \in {SimEntry(M, N, StartUp(k)) : M \in 1 .. MaxDim, N \in 1 .. MaxDim,
                                             k \in 0 .. NumKeys - 1}
    /\ pc = "idle"
    /\ script = FALSE /\ drift = FALSE /\ seed = NoSeed /\ maxiter = 0
    /\ rng = StartUp(0)
    /\ draws = <<>>
    /\ y = <<>> /\ f = <<>> /\ mask = <<>>
    /\ fn = "" /\ ip = 0 /\ ind = -1 /\ rotate = FALSE /\ tlen = NoLocals
    /\ trace = <<>>
    /\ exc = ""
    /\ runs = 1
    /\ prev = NoPrev

notSim == <<pc, script, drift, seed, maxiter, rng, draws, y, f, mask,
            fn, ip, ind, rotate, tlen, trace, exc, runs, prev>>

\* lines 50-53
SimBeginStep == sim.pc = "begin" /\ sim' = SimBegin(sim) /\ UNCHANGED notSim

\* lines 54-59
Loop1Step == sim.pc = "loop1" /\ sim' = Loop1(sim) /\ UNCHANGED notSim

\* lines 60-65
AllocStep == sim.pc = "alloc" /\ sim' = Alloc(sim) /\ UNCHANGED notSim

\* lines 66-69
Loop2Step == sim.pc = "loop2" /\ sim' = Loop2(sim) /\ UNCHANGED notSim

SimNext == SimBeginStep \/ Loop1Step \/ AllocStep \/ Loop2Step

SpecSim == SimInit /\ [][SimNext]_vars /\ WF_vars(SimNext)

(***************************************************************************)
(* Reading the record of calls.                                            *)
(***************************************************************************)
At(op) == {i \in DOMAIN trace : trace[i].op = op}
Count(op) == Cardinality(At(op))

SimulateOps == {"simulate_drifting_lssm", "random.mask"}
UpdateOps == {"update", "print"}
PlotOps == {"plot_iteration_by_nodes", "plt.figure", "bpplt.timeseries_normal",
            "bpplt.timeseries", "bpplt.timeseries_gaussian_mc", "plt.show"}
RotationOps == {"rotate", "RotationOptimizer", "RotateGaussianMatrixARD",
                "RotateDriftingMarkovChain", "RotateGaussianARD",
                "RotateGaussianMarkovChain"}

\* the step of the script a call belongs to: 1 simulate, 2 build the model and
\* observe, 3 update, 4 plot
Phase(e) ==
    CASE e.op \in SimulateOps -> 1
      [] e.op \in UpdateOps -> 3
      [] e.op \in PlotOps -> 4
      [] OTHER -> 2

\* the Q.update calls made so far, in order
UpdateCalls == SelectSeq(trace, LAMBDA e : e.op = "update")

InDlssm == drift /\ fn = "run_dlssm"

(***************************************************************************)
(* C1.  In run(drift=True, ...) the steps happen in order: the data is     *)
(* simulated and the mask built first; then the nodes are constructed,     *)
(* Y.observe is called exactly once, directly followed by the              *)
(* construction of VB; then all Q.update calls; then the plotting calls.   *)
(* No update precedes observe and no plotting call precedes the last       *)
(* update.                                                                 *)
(***************************************************************************)
C1_StepsInOrder ==
    drift =>
        /\ \A i \in 1 .. Len(trace) - 1 : Phase(trace[i]) <= Phase(trace[i + 1])
        /\ Count("simulate_drifting_lssm") <= 1
        /\ Count("observe") <= 1
        /\ trace # <<>> => trace[1].op = "simulate_drifting_lssm"
        /\ fn # "" => /\ Len(trace) >= 3
                      /\ trace[2].op = "random.mask"
                      /\ trace[3].op = "run_dlssm"
        /\ \A i \in At("VB") : i > 1 /\ trace[i - 1].op = "observe"
        /\ LET vb == At("VB")
           IN \A i \in At("update") : vb # {} /\ (\A j \in vb : j < i)
        /\ (\E i \in DOMAIN trace : Phase(trace[i]) = 4) => Count("update") = 9 * maxiter
        /\ pc = "returned" =>
               /\ Count("observe") = 1
               /\ Count("VB") = 1
               /\ Count("plot_iteration_by_nodes") = 1
               /\ Count("plt.figure") = 3

C1_Witness ==
    /\ drift /\ pc = "returned" /\ maxiter >= 1
    /\ Count("update") >= 9
    /\ Count("bpplt.timeseries_gaussian_mc") = 2

(***************************************************************************)
(* C2.  For maxiter = k the iteration loop of run_dlssm makes exactly k    *)
(* passes; each pass calls Q.update once on each of X, S, A, alpha, B,     *)
(* beta, C, gamma, tau, in that order: 9*k calls in all, none for k = 0.   *)
(***************************************************************************)
C2_UpdatesPerPass ==
    InDlssm =>
        LET nodes == <<"X", "S", "A", "alpha", "B", "beta", "C", "gamma", "tau">>
            U == UpdateCalls
        IN /\ \A i \in DOMAIN U : U[i].args = << nodes[((i - 1) % 9) + 1] >>
           /\ Len(U) <= 9 * maxiter
           /\ ind + 1 <= maxiter
           /\ ind >= 0 => /\ Len(U) >= 9 * ind
                          /\ Len(U) <= 9 * (ind + 1)
           /\ (Count("plot_iteration_by_nodes") > 0 \/ pc = "returned") =>
                  /\ Len(U) = 9 * maxiter
                  /\ ind + 1 = maxiter

C2_Witness ==
    /\ InDlssm /\ pc = "returned" /\ maxiter = 2
    /\ Len(UpdateCalls) = 18
    /\ UpdateCalls[11].args = <<"S">>

(***************************************************************************)
(* C3.  run(drift=False) runs run_lssm to its end: the nodes are           *)
(* constructed, Y.observe is called exactly once, VB(Y, X, A, alpha, C,    *)
(* gamma, tau) is constructed, maxiter passes follow, each one             *)
(* Q.update(X, A, alpha, C, gamma, tau) directly followed by R.rotate(),   *)
(* and the plotting helpers are called.                                    *)
(***************************************************************************)
C3_LssmRunsToTheEnd ==
    (~drift /\ Ended) =>
        /\ exc = ""
        /\ Count("observe") = 1
        /\ Count("VB") = 1
        /\ \A i \in At("VB") : /\ trace[i - 1].op = "observe"
                               /\ trace[i].args = <<"Y", "X", "A", "alpha", "C", "gamma", "tau">>
        /\ Count("update") = maxiter
        /\ Count("rotate") = maxiter
        /\ \A i \in At("update") : /\ trace[i].args = <<"X", "A", "alpha", "C", "gamma", "tau">>
                                   /\ i < Len(trace)
                                   /\ trace[i + 1].op = "rotate"
        /\ Count("bpplt.timeseries_normal") = 1
        /\ Count("bpplt.timeseries") = 2

(***************************************************************************)
(* C4.  The claim as stated: an execution of the script simulates the      *)
(* data once and fits both models, run_lssm and run_dlssm, before the      *)
(* results are shown.                                                      *)
(***************************************************************************)
C4_BothModelsFitted ==
    (script /\ pc = "exit") =>
        /\ Count("simulate_drifting_lssm") = 1
        /\ Count("run_lssm") = 1
        /\ Count("run_dlssm") = 1

(***************************************************************************)
(* C4, amended.  An execution of the script simulates the data once and    *)
(* fits one model on it, the drifting-dynamics model (run_dlssm): run is   *)
(* called with its default drift=True, run_lssm is not called, and the     *)
(* plots follow the fit, plt.show() last.                                  *)
(***************************************************************************)
C4_DriftModelOnly ==
    script =>
        /\ fn \in {"", "run_dlssm"}
        /\ Count("run_lssm") = 0
        /\ exc = ""
        /\ pc = "exit" =>
               /\ Count("simulate_drifting_lssm") = 1
               /\ Count("run_dlssm") = 1
               /\ \A i \in At("simulate_drifting_lssm"), j \in At("run_dlssm") : i < j
               /\ \A i \in 1 .. Len(trace) - 1 : Phase(trace[i]) <= Phase(trace[i + 1])
               /\ trace[Len(trace)].op = "plt.show"

C4_Witness ==
    /\ script /\ pc = "exit"
    /\ Count("run_dlssm") = 1
    /\ Count("update") = 9 * DefaultMaxiter

(***************************************************************************)
(* C5.  In the (y, mask) pair handed to run_dlssm or run_lssm, a cell of   *)
(* y is NaN exactly where mask is False; mask is False in every row of     *)
(* the columns 70 <= n < 120, whatever random.mask returned; and where     *)
(* mask is True the cell of y holds the simulated value.                   *)
(***************************************************************************)
C5_MaskMarksMissing ==
    fn # "" =>
        /\ DOMAIN y = 0 .. 199 /\ DOMAIN mask = 0 .. 199
        /\ \A n \in 0 .. 199 :
               /\ DOMAIN y[n] = 0 .. 9 /\ DOMAIN mask[n] = 0 .. 9
               /\ \A m \in 0 .. 9 :
                      /\ y[n][m] = NaN <=> ~mask[n][m]
                      /\ (70 <= n /\ n < 120) => ~mask[n][m]
                      /\ mask[n][m] => y[n][m] = sim.y[n][m]

\* the window overrode cells random.mask had set, and cells are missing outside it
C5_Witness ==
    /\ fn # ""
    /\ LET drawn == RandomMask(M_run, N_run, 8, 10, sim.g)
       IN /\ \E n \in 70 .. 119, m \in 0 .. 9 : drawn[n][m] /\ ~mask[n][m] /\ y[n][m] = NaN
          /\ \E n \in 0 .. 69, m \in 0 .. 9 : ~drawn[n][m] /\ y[n][m] = NaN
          /\ \E n \in 120 .. 199, m \in 0 .. 9 : mask[n][m] /\ y[n][m] # NaN

(***************************************************************************)
(* C6.  With a seed, np.random.seed(seed) is called once, before the       *)
(* first draw, and two executions with the same seed, drift and maxiter    *)
(* request the same draws in the same order and produce the same y, f,     *)
(* mask and the same sequence of calls; without a seed no seeding call     *)
(* is made.                                                                *)
(***************************************************************************)
C6_SeedReproduces ==
    /\ seed = NoSeed => \A i \in DOMAIN draws : draws[i].op # "seed"
    /\ (seed # NoSeed /\ pc # "seed") =>
           /\ draws # <<>>
           /\ draws[1] = [op |-> "seed", size |-> seed]
           /\ \A i \in 2 .. Len(draws) : draws[i].op # "seed"
    /\ (seed # NoSeed /\ runs = 2 /\ Ended) =>
           /\ y = prev.y
           /\ f = prev.f
           /\ mask = prev.mask
           /\ draws = prev.draws
           /\ trace = prev.trace
           /\ exc = prev.exc

C6_Witness ==
    /\ seed # NoSeed /\ runs = 2 /\ pc = "returned"
    /\ drift /\ maxiter >= 1
    /\ Len(draws) > 400
    /\ y = prev.y /\ trace = prev.trace

(***************************************************************************)
(* C7.  Every failure of run, run_dlssm and run_lssm is an exception       *)
(* raised by a call into a library or a shape mismatch, and none is        *)
(* handled: after it nothing more is executed.                             *)
(***************************************************************************)
C7_OnlyLibraryFailures ==
    [][/\ exc' # "" => exc' \in {"LibraryError", "ValueError"}
       /\ exc # "" => UNCHANGED vars]_vars

\* the second half of C7 alone: an exception ends the execution
PropagatesUnhandled == [][exc # "" => UNCHANGED vars]_vars

(***************************************************************************)
(* C8.  simulate_drifting_lssm(M, N) terminates for M, N >= 1.  Its first  *)
(* loop makes N-1 passes and writes a[0..N-2] once each, leaving the       *)
(* counter n at N-1; its second loop writes x[n+1], f[:,n+1], y[:,n+1]     *)
(* for n = 0..N-2 from a[n] and x[n], both written before; no index is     *)
(* out of bounds; at the return every time index of x, f and y was         *)
(* written exactly once.                                                   *)
(***************************************************************************)
C8_Writes ==
    LET N == sim.N
        Once(w, upto) == \A i \in DOMAIN w : w[i] = IF i <= upto THEN 1 ELSE 0
    IN /\ sim.pc # "raised" /\ sim.err = "" /\ ~sim.uninit
       /\ sim.pc = "loop1" =>
              /\ sim.n = sim.it /\ sim.n <= N - 1
              /\ DOMAIN sim.aw = 0 .. N - 2
              /\ Once(sim.aw, sim.n - 1)
       /\ sim.pc = "alloc" => sim.n = N - 1 /\ sim.it = N - 1
       /\ sim.pc \in {"alloc", "loop2", "return"} =>
              /\ Once(sim.aw, N - 2)
              /\ \A i \in 0 .. N - 2 : sim.a[i] # Empty
       /\ sim.pc = "loop2" =>
              /\ sim.it <= N - 1
              /\ DOMAIN sim.xw = 0 .. N - 1
              /\ Once(sim.xw, sim.it) /\ Once(sim.fw, sim.it) /\ Once(sim.yw, sim.it)
       /\ sim.pc = "return" =>
              /\ sim.it = N - 1
              /\ Once(sim.xw, N - 1) /\ Once(sim.fw, N - 1) /\ Once(sim.yw, N - 1)
              /\ \A i \in 0 .. N - 1 :
                     /\ \A d \in Dims : sim.x[i][d] # Empty
                     /\ \A m \in 0 .. sim.M - 1 : sim.f[i][m] # Empty /\ sim.y[i][m] # Empty

C8_SimulateTerminates == []C8_Writes /\ <>(sim.pc = "return")

C8_Witness ==
    /\ sim.pc = "return" /\ sim.N = 3 /\ sim.M = 2
    /\ sim.xw = [i \in 0 .. 2 |-> 1]
    /\ sim.n = 1
    /\ Len(sim.req) = 7

(***************************************************************************)
(* C9.  In run_dlssm, for y with N columns: S has N time instances, X has  *)
(* N+1 and so takes N transitions, which is the number of dynamics         *)
(* matrices BS has (one per instance of S); F, built from X without its    *)
(* first instance, has N instances, as many as S and as the columns of y   *)
(* and mask given to Y.observe.                                            *)
(***************************************************************************)
C9_TimeAxesAgree ==
    InDlssm =>
        LET has(v) == v \in DOMAIN tlen
        IN /\ exc # "ValueError"
           /\ has("S") => tlen["S"] = 200
           /\ has("BS") => tlen["BS"] = tlen["S"]
           /\ has("X") => tlen["X"] = 201 /\ tlen["X"] - 1 = tlen["BS"]
           /\ has("F") => tlen["F"] = tlen["X"] - 1 /\ tlen["F"] = tlen["S"]
           /\ has("Y") => tlen["Y"] = tlen["F"]
           /\ Count("observe") > 0 =>
                  /\ tlen["Y"] = Cardinality(DOMAIN y)
                  /\ tlen["Y"] = Cardinality(DOMAIN mask)
                  /\ tlen["y"] = Cardinality(DOMAIN y)
                  /\ tlen["mask"] = Cardinality(DOMAIN mask)

C9_Witness ==
    /\ InDlssm /\ Count("observe") = 1 /\ Count("VB") = 1
    /\ tlen["F"] = 200 /\ tlen["X"] = 201

(***************************************************************************)
(* C10.  run_dlssm never rotates: rotate is False throughout, no rotation  *)
(* transformation or RotationOptimizer is constructed, R_X.rotate() and    *)
(* R_S.rotate() are never called, and R_X and R_S are never read unbound.  *)
(***************************************************************************)
C10_NoRotation ==
    InDlssm =>
        /\ rotate = FALSE
        /\ \A i \in DOMAIN trace : trace[i].op \notin RotationOps
        /\ "R_X" \notin DOMAIN tlen /\ "R_S" \notin DOMAIN tlen
        /\ exc # "NameError"

C10_Witness ==
    /\ InDlssm /\ pc = "returned" /\ maxiter = 2
    /\ "rotate" \in DOMAIN tlen
    /\ Count("update") = 18

====
